---- MODULE Spec2Model ----
(***************************************************************************)
(* Model of flex (src/flex/core.py, src/flex/models.py): the registry of   *)
(* intent handlers, the dispatch of a Lex request to a handler with the    *)
(* handler's arguments bound from the slots, the _Field wrapper and the    *)
(* _Response builders.                                                     *)
(*                                                                         *)
(* Python values are records with a tag t:                                 *)
(*   None            [t |-> "None",     v |-> ""]                          *)
(*   str s           [t |-> "str",      v |-> s]                           *)
(*   int / date      [t |-> "int" | "date", v |-> its printed form]        *)
(*   function f      [t |-> "function", v |-> its name]                    *)
(*   bound method m  [t |-> "method",   v |-> its name]                    *)
(*   exception e     [t |-> "error",    v |-> its class]                   *)
(*   dict            [t |-> "dict",     kv |-> function key -> value]      *)
(*   _Field          [t |-> "_Field",   kv |-> function key -> value]      *)
(*   list            [t |-> "list",     items |-> sequence of values]      *)
(***************************************************************************)
EXTENDS Integers, Sequences, FiniteSets, TLC

None == [t |-> "None", v |-> ""]
Str(s) == [t |-> "str", v |-> s]
IntV(s) == [t |-> "int", v |-> s]
DateV(s) == [t |-> "date", v |-> s]
Function(name) == [t |-> "function", v |-> name]
Method(name) == [t |-> "method", v |-> name]
Error(cls) == [t |-> "error", v |-> cls]
Dict(f) == [t |-> "dict", kv |-> f]
FieldOf(f) == [t |-> "_Field", kv |-> f]
List(s) == [t |-> "list", items |-> s]

EmptyMap == [k \in {} |-> None]

\* isinstance(value, dict): true of a dict and of its subclass _Field
IsDict(value) == value.t \in {"dict", "_Field"}

\* dict.get(key): the value under key, None when the key is absent
Get(d, key) == IF key \in DOMAIN d.kv THEN d.kv[key] ELSE None

\* d with d[key] = value
Put(d, key, value) ==
    [d EXCEPT !.kv = [k \in (DOMAIN d.kv) \cup {key} |-> IF k = key THEN value ELSE d.kv[k]]]

(***************************************************************************)
(* models.py: _Field                                                       *)
(***************************************************************************)

\* _Field.__init__: copy the mapping, then wrap every value that is itself
\* a dict; any other value (a list included) is stored as it is
RECURSIVE Field(_)
Field(request_json) ==
    FieldOf([key \in DOMAIN request_json.kv |->
               IF IsDict(request_json.kv[key])
               THEN Field(request_json.kv[key])
               ELSE request_json.kv[key]])

\* the attribute names of dict itself: ordinary attribute lookup finds these
\* on a _Field before __getattr__ is consulted
DictAttrs == {"items", "keys", "values", "get", "pop", "copy", "update", "clear"}

\* the attribute names of the model's alphabet that contain 'timestamp'
TimestampAttrs == {"timestamp"}

\* the ISO 8601 date-times of the model's alphabet
IsoDatetimes == {"2017-01-01T00:00:00"}

\* aniso8601.parse_datetime as _Field.__getattr__ calls it: a datetime for an
\* ISO 8601 string, an exception for None and for any other string
parse_datetime(value) ==
    IF value.t = "str" /\ value.v \in IsoDatetimes
    THEN [st |-> "ok", val |-> [t |-> "datetime", v |-> value.v]]
    ELSE [st |-> "raise", exc |-> Error(IF value.t = "str" THEN "ValueError" ELSE "TypeError")]

\* getattr(field, attr) on a _Field: a dict attribute is found first,
\* otherwise _Field.__getattr__ runs
GetAttr(field, attr) ==
    IF attr \in DictAttrs
    THEN [st |-> "ok", val |-> Method(attr)]
    ELSE IF attr \in TimestampAttrs
         THEN parse_datetime(Get(field, attr))
         ELSE [st |-> "ok", val |-> Get(field, attr)]

\* field.attr for the attribute names core.py reads, none of which is a dict
\* attribute or contains 'timestamp'
Attr(field, attr) == GetAttr(field, attr).val

(***************************************************************************)
(* core.py: the registry and the dispatcher                                *)
(***************************************************************************)

VARIABLES
    _intent_view_funcs,         \* Flex._intent_view_funcs: intent name -> handler
    _intent_mappings,           \* Flex._intent_mappings:   intent name -> dict
    _intent_converts,           \* Flex._intent_converts:   intent name -> dict
    _intent_defaults,           \* Flex._intent_defaults:   intent name -> dict
    _default_intent_view_func,  \* Flex._default_intent_view_func, None or a handler
    convert_errors,             \* Flex.convert_errors, unset until a dispatch completes
    ctx,                        \* the application context of the request served last
    flex_payload,               \* the payload of the request served last
    dispatched,                 \* what _map_intent_to_view_func did in that request
    view_result                 \* what _flask_view_func returned or raised

\* the module-level table of shorthand converters
_converters == [date |-> Function("to_date"), time |-> Function("to_time"),
                timedelta |-> Function("to_timedelta")]

\* inspect.getargspec(view_func).args of the handlers of the model
getargspec == [h0 |-> <<>>, hPQ |-> <<"p", "q">>, hQP |-> <<"q", "p">>]

\* the strings int() accepts
IntStrings == {"2017"}

\* the strings the built-in date parser accepts
DateStrings == {"2017"}

\* the built-in parser to_date of the shorthand 'date': a date for a string it
\* accepts, an exception for anything else
to_date(arg_value) ==
    IF arg_value.t = "str" /\ arg_value.v \in DateStrings
    THEN [st |-> "ok", val |-> DateV(arg_value.v)]
    ELSE [st |-> "raise", exc |-> Error(IF arg_value.t = "str" THEN "ValueError" ELSE "TypeError")]

\* convert_func(arg_value) for the converters of the model: the built-in int
\* and the shorthand parser to_date
CallConverter(convert_func, arg_value) ==
    CASE convert_func = Function("int") ->
           IF arg_value.t = "str" /\ arg_value.v \in IntStrings
           THEN [st |-> "ok", val |-> IntV(arg_value.v)]
           ELSE [st |-> "raise", exc |-> Error(IF arg_value.t = "str" THEN "ValueError" ELSE "TypeError")]
      [] convert_func = Function("to_date") -> to_date(arg_value)
      [] OTHER -> [st |-> "raise", exc |-> Error("TypeError")]

\* default_value(): the zero-argument callable of the model returns the name
\* of the intent of the request being served, read from the context when it
\* is called
CallDefault(default_value, current_intent) ==
    IF current_intent = None THEN None ELSE Attr(current_intent, "name")

\* isinstance(default_value, collections.Callable)
IsCallable(value) == value.t \in {"function", "method"}

\* request_data of _map_params_to_view_args: every slot key with
\* getattr(intent.slots, slot_key)
RequestData(intent) ==
    LET slots == Attr(intent, "slots")
    IN  IF slots = None
        THEN [st |-> "ok", val |-> Dict(EmptyMap)]
        ELSE IF \E slot_key \in DOMAIN slots.kv : GetAttr(slots, slot_key).st = "raise"
             THEN [st |-> "raise",
                   exc |-> GetAttr(slots, CHOOSE slot_key \in DOMAIN slots.kv :
                                            GetAttr(slots, slot_key).st = "raise").exc]
             ELSE [st |-> "ok",
                   val |-> Dict([slot_key \in DOMAIN slots.kv |-> GetAttr(slots, slot_key).val])]

\* EffectiveSlot with the rename ignored: the parameter's own name is the slot key
EffectiveSlot_OwnName(mapping, arg_name) == arg_name

\* mapping.get(arg_name, arg_name): the slot key a parameter is read from
EffectiveSlot(mapping, arg_name) ==
    IF arg_name \in DOMAIN mapping.kv THEN mapping.kv[arg_name].v ELSE arg_name

\* Unfilled with the test for the empty string left out
Unfilled_NoneOnly(arg_value) == arg_value = None

\* arg_value is None or arg_value == ''
Unfilled(arg_value) == arg_value = None \/ arg_value = Str("")

\* the branch of an unfilled parameter: its default, called when it is
\* callable, or the unfilled value itself when it has no default.  called tells
\* whether a callable default was called, err is the conversion error recorded
ApplyDefault(default, arg_name, arg_value, intent) ==
    IF default = None
    THEN [st |-> "raise", exc |-> Error("TypeError")]
    ELSE IF arg_name \in DOMAIN default.kv
         THEN IF IsCallable(default.kv[arg_name])
              THEN [st |-> "ok", val |-> CallDefault(default.kv[arg_name], intent),
                    err |-> None, called |-> TRUE]
              ELSE [st |-> "ok", val |-> default.kv[arg_name], err |-> None, called |-> FALSE]
         ELSE [st |-> "ok", val |-> arg_value, err |-> None, called |-> FALSE]

\* convert[arg_name] resolved to a function: a shorthand names a built-in parser
ConvertFunc(shorthand_or_function) ==
    IF shorthand_or_function.t = "str" /\ shorthand_or_function.v \in DOMAIN _converters
    THEN _converters[shorthand_or_function.v]
    ELSE shorthand_or_function

\* TryConvert without the try: the exception of the converter leaves the loop
TryConvert_Propagate(arg_value, r) ==
    IF r.st = "ok"
    THEN [st |-> "ok", val |-> r.val, err |-> None, called |-> FALSE]
    ELSE [st |-> "raise", exc |-> r.exc]

\* try: arg_value = convert_func(arg_value) except Exception as e:
\* convert_errors[arg_name] = e, with r the outcome of the call
TryConvert(arg_value, r) ==
    IF r.st = "ok"
    THEN [st |-> "ok", val |-> r.val, err |-> None, called |-> FALSE]
    ELSE [st |-> "ok", val |-> arg_value, err |-> r.exc, called |-> FALSE]

\* the branch of a filled parameter: converted when it has a converter
ApplyConvert(convert, arg_name, arg_value) ==
    IF convert = None
    THEN [st |-> "raise", exc |-> Error("TypeError")]
    ELSE IF arg_name \in DOMAIN convert.kv
         THEN TryConvert(arg_value,
                         CallConverter(ConvertFunc(convert.kv[arg_name]), arg_value))
         ELSE [st |-> "ok", val |-> arg_value, err |-> None, called |-> FALSE]

\* the body of the loop for arg_name once arg_value is read from request_data
ResolveValue(arg_name, arg_value, convert, default, intent) ==
    IF Unfilled(arg_value)
    THEN ApplyDefault(default, arg_name, arg_value, intent)
    ELSE ApplyConvert(convert, arg_name, arg_value)

\* the body of the loop for arg_name: the value resolved for the parameter
ResolveArg(arg_name, convert, default, mapping, request_data, intent) ==
    IF mapping = None
    THEN [st |-> "raise", exc |-> Error("AttributeError")]
    ELSE ResolveValue(arg_name, Get(request_data, EffectiveSlot(mapping, arg_name)),
                      convert, default, intent)

\* Accumulate with an unfilled value (None or '') left out of arg_values
Accumulate_SkipUnfilled(acc, arg_name, r) ==
    IF r.st = "raise"
    THEN r
    ELSE [st |-> "ok",
          arg_values |-> IF r.val = None \/ r.val = Str("")
                         THEN acc.arg_values
                         ELSE Append(acc.arg_values, r.val),
          convert_errors |-> IF r.err = None THEN acc.convert_errors
                             ELSE Put(acc.convert_errors, arg_name, r.err),
          calls |-> IF r.called THEN Append(acc.calls, arg_name) ELSE acc.calls]

\* arg_values.append(arg_value), with the conversion error and the call of a
\* default recorded: the state of the loop after the iteration for arg_name
Accumulate(acc, arg_name, r) ==
    IF r.st = "raise"
    THEN r
    ELSE [st |-> "ok",
          arg_values |-> Append(acc.arg_values, r.val),
          convert_errors |-> IF r.err = None THEN acc.convert_errors
                             ELSE Put(acc.convert_errors, arg_name, r.err),
          calls |-> IF r.called THEN Append(acc.calls, arg_name) ELSE acc.calls]

\* one iteration of the loop over arg_names, from the state acc of the loop
BindArg(arg_name, convert, default, mapping, request_data, intent, acc) ==
    Accumulate(acc, arg_name,
               ResolveArg(arg_name, convert, default, mapping, request_data, intent))

\* the loop over arg_names from position i
RECURSIVE BindArgs(_, _, _, _, _, _, _, _)
BindArgs(arg_names, i, convert, default, mapping, request_data, intent, acc) ==
    IF i > Len(arg_names) \/ acc.st = "raise"
    THEN acc
    ELSE BindArgs(arg_names, i + 1, convert, default, mapping, request_data, intent,
                  BindArg(arg_names[i], convert, default, mapping, request_data, intent, acc))

\* registry.get(view_name)
RegGet(registry, view_name) ==
    IF view_name.t = "str" /\ view_name.v \in DOMAIN registry
    THEN registry[view_name.v]
    ELSE None

\* the loop of _map_params_to_view_args over arg_names, once request_data is built
BindAll(arg_names, convert, default, mapping, request_data, intent) ==
    IF request_data.st = "raise"
    THEN [st |-> "raise", exc |-> request_data.exc]
    ELSE BindArgs(arg_names, 1, convert, default, mapping, request_data.val, intent,
                  [st |-> "ok", arg_values |-> <<>>,
                   convert_errors |-> Dict(EmptyMap), calls |-> <<>>])

\* Flex._map_params_to_view_args: the arguments and the conversion errors, or
\* the exception it raises; intent is self.current_intent
_map_params_to_view_args(converts, defaults, mappings, intent, view_name, arg_names) ==
    BindAll(arg_names, RegGet(converts, view_name), RegGet(defaults, view_name),
            RegGet(mappings, view_name), RequestData(intent), intent)

(***************************************************************************)
(* models.py: _Response                                                    *)
(***************************************************************************)

\* _Response.__init__: the envelope self._response
NewResponse(action) == Dict([dialogAction |-> Dict([type |-> Str(action)])])

\* close.__init__
close(fulfilled) ==
    LET r == NewResponse("Close")
    IN  Put(r, "dialogAction",
            Put(r.kv["dialogAction"], "fulfillmentState",
                Str(IF fulfilled THEN "Fulfilled" ELSE "Failed")))

\* confirm_intent.__init__
confirm_intent(intent_name, slots) ==
    LET r == NewResponse("ConfirmIntent")
    IN  Put(r, "dialogAction",
            Put(Put(r.kv["dialogAction"], "intentName", Str(intent_name)), "slots", slots))

\* delegate.__init__
delegate(slots) ==
    LET r == NewResponse("Delegate")
    IN  Put(r, "dialogAction", Put(r.kv["dialogAction"], "slots", slots))

\* elicit_intent.__init__
elicit_intent == NewResponse("ElicitIntent")

\* elicit_slot.__init__
elicit_slot(intent_name, slot_to_elicit, slots) ==
    LET r == NewResponse("ElicitSlot")
    IN  Put(r, "dialogAction",
            Put(Put(Put(r.kv["dialogAction"], "intentName", Str(intent_name)),
                    "slotToElicit", Str(slot_to_elicit)),
                "slots", slots))

\* ElementTree.fromstring(message).tag for the messages of the model: the tag
\* of the root element, "ParseError" for text that is not well-formed XML
XmlRootTag(message) ==
    CASE message = "<speak>hi</speak>" -> "speak"
      [] message = "<p>hi</p>" -> "p"
      [] OTHER -> "ParseError"

\* models._message
_message(message) ==
    IF XmlRootTag(message) = "speak"
    THEN Dict([contentType |-> Str("SSML"), content |-> Str(message)])
    ELSE Dict([contentType |-> Str("PlainText"), content |-> Str(message)])

\* _Response.message on the envelope response
message(response, msg) ==
    Put(response, "dialogAction", Put(response.kv["dialogAction"], "message", _message(msg)))

\* attachment[key] = value when value is not None
PutIfNotNone(attachment, key, value) ==
    IF value # None THEN Put(attachment, key, value) ELSE attachment

\* the attachment response_card builds from its arguments
Attachment(title, subtitle, image_url, attachment_url, buttons) ==
    PutIfNotNone(
      PutIfNotNone(
        PutIfNotNone(
          PutIfNotNone(
            PutIfNotNone(Dict(EmptyMap), "title", title),
            "subTitle", subtitle),
          "imageUrl", image_url),
        "attachmentLinkUrl", attachment_url),
      "buttons", buttons)

\* WithCard that makes the empty card at every call
WithCard_Reset(response) ==
    Put(response, "responseCard",
        Dict([version |-> IntV("1"),
              contentType |-> Str("application/vnd.amazonaws.card.generic"),
              genericAttachments |-> List(<<>>)]))

\* the envelope once the card exists: unchanged when the key is present,
\* else with the empty card under the key
WithCard(response) ==
    IF "responseCard" \in DOMAIN response.kv
    THEN response
    ELSE Put(response, "responseCard",
             Dict([version |-> IntV("1"),
                   contentType |-> Str("application/vnd.amazonaws.card.generic"),
                   genericAttachments |-> List(<<>>)]))

\* genericAttachments.append(attachment) on the card of response
AppendAttachment(response, attachment) ==
    Put(response, "responseCard",
        Put(response.kv["responseCard"], "genericAttachments",
            List(Append(response.kv["responseCard"].kv["genericAttachments"].items,
                        attachment))))

\* _Response.response_card on the envelope response
response_card(response, title, subtitle, image_url, attachment_url, buttons) ==
    AppendAttachment(WithCard(response),
                     Attachment(title, subtitle, image_url, attachment_url, buttons))

\* dict(session): a plain dict of the session's items; None is not iterable
DictOfSession(session) ==
    IF session = None
    THEN [st |-> "raise", exc |-> Error("TypeError")]
    ELSE [st |-> "ok", val |-> Dict(session.kv)]

\* json.dumps(obj): the JSON text of obj, kept as the document it denotes
JsonDumps(obj) == [t |-> "json", doc |-> obj]

\* _Response.render_response, with session the ambient session at this moment
render_response(response, session) ==
    LET attrs == DictOfSession(session)
    IN  IF attrs.st = "raise"
        THEN attrs
        ELSE [st |-> "ok", val |-> JsonDumps(Put(response, "sessionAttributes", attrs.val))]

(***************************************************************************)
(* core.py: dispatch and the request boundary                              *)
(***************************************************************************)

\* the return of _map_intent_to_view_func: partial(view_func, *arg_values),
\* or the exception _map_params_to_view_args raised
Partial(view_func, bound) ==
    IF bound.st = "raise"
    THEN [called |-> TRUE, st |-> "raise", exc |-> bound.exc, view_func |-> view_func]
    ELSE [called |-> TRUE, st |-> "ok", view_func |-> view_func,
          arg_values |-> bound.arg_values,
          convert_errors |-> bound.convert_errors,
          calls |-> bound.calls]

\* ResolveViewFunc with the default handler, when there is one, tried first
ResolveViewFunc_DefaultFirst(view_funcs, default_view_func, name) ==
    IF default_view_func # None
    THEN default_view_func
    ELSE IF name.t = "str" /\ name.v \in DOMAIN view_funcs
         THEN view_funcs[name.v]
         ELSE None

\* the handler _map_intent_to_view_func chooses for the intent name: the one
\* registered under the name, else the default handler (None when there is none)
ResolveViewFunc(view_funcs, default_view_func, name) ==
    IF name.t = "str" /\ name.v \in DOMAIN view_funcs
    THEN view_funcs[name.v]
    ELSE default_view_func

\* _map_intent_to_view_func once view_func is resolved
BindViewFunc(view_func, converts, defaults, mappings, intent) ==
    IF view_func = None
    THEN [called |-> TRUE, st |-> "raise", exc |-> Error("NotImplementedError"),
          view_func |-> None]
    ELSE Partial(view_func,
                 _map_params_to_view_args(converts, defaults, mappings, intent,
                                          Attr(intent, "name"), getargspec[view_func.v]))

\* Flex._map_intent_to_view_func: the handler chosen and the arguments bound
\* for it, or the exception raised
_map_intent_to_view_func(view_funcs, default_view_func, converts, defaults, mappings, intent) ==
    IF intent = None
    THEN [called |-> TRUE, st |-> "raise", exc |-> Error("AttributeError"), view_func |-> None]
    ELSE BindViewFunc(ResolveViewFunc(view_funcs, default_view_func, Attr(intent, "name")),
                      converts, defaults, mappings, intent)

\* partial(view_func, *arg_values)(): what the handlers of the model return.
\* h0 answers with a response object, the others with a plain value made of
\* their arguments
Invoke(view_func, arg_values) ==
    IF view_func = Function("h0")
    THEN [t |-> "_Response", response |-> close(TRUE)]
    ELSE [t |-> "result", handler |-> view_func.v, args |-> arg_values]

\* the context of a request, as the property setters of Flex fill it from the
\* wrapped payload
ContextOf(request_body) ==
    [current_intent |-> Attr(request_body, "currentIntent"),
     bot |-> Attr(request_body, "bot"),
     user |-> Attr(request_body, "userId"),
     transcript |-> Attr(request_body, "inputTranscript"),
     source |-> Attr(request_body, "invocationSource"),
     output_mode |-> Attr(request_body, "outputDialogMode"),
     version |-> Attr(request_body, "messageVersion"),
     session |-> Attr(request_body, "sessionAttributes"),
     request |-> Attr(request_body, "requestAttributes")]

\* what the property getters of Flex return outside a request
NoContext ==
    [current_intent |-> None, bot |-> Dict(EmptyMap), user |-> None, transcript |-> None,
     source |-> None, output_mode |-> None, version |-> None,
     session |-> Dict(EmptyMap), request |-> Dict(EmptyMap)]

NotCalled == [called |-> FALSE]


(***************************************************************************)
(* State of the other components                                           *)
(***************************************************************************)

VARIABLES
    registrations,   \* history: per intent name, how many times @flex.intent
                     \* registered it and the arguments of the latest time
    request_json,    \* the mapping given to _Field
    field,           \* _Field(request_json), None before the call
    _response,       \* _Response._response of a response object, None before it is made
    card_calls,      \* history: the number of response_card calls on the object
    cards,           \* history: the attachments of those calls, in call order
    rendered,        \* what render_response returned or raised, None before the call
    threads          \* per worker thread of the server: where it is in
                     \* _flask_view_func, its payload, the convert_errors of its
                     \* own dispatch and the convert_errors its handler read

request_vars == <<convert_errors, ctx, flex_payload, dispatched, view_result, threads>>
registry_vars == <<_intent_view_funcs, _intent_mappings, _intent_converts,
                   _intent_defaults, _default_intent_view_func>>
field_vars == <<request_json, field>>
response_vars == <<_response, card_calls, cards, rendered>>

vars == <<registry_vars, request_vars, registrations, field_vars, response_vars>>

(***************************************************************************)
(* The registrations and the requests of the model                         *)
(***************************************************************************)

\* the intents of the bot; the application of Spec registers a handler for the
\* intents of AppIntents only, the application of SpecRegistry for all
IntentNames == {"A", "B"}
AppIntents == {"A"}
NamedHandlers == {Function("hPQ"), Function("hQP")}
DefaultHandlers == {Function("h0"), Function("hPQ")}
Mappings == {Dict(EmptyMap), Dict([p |-> Str("s")]), Dict([p |-> Str("items")])}
Converts == {Dict(EmptyMap), Dict([p |-> Function("int"), q |-> Str("date")])}
Defaults == {Dict(EmptyMap), Dict([p |-> Str("d"), q |-> Function("current_intent_name")])}

\* the slot maps: slot p absent or holding any value a slot can hold, and at
\* most one more slot
SlotValues == {None, Str(""), Str("2017"), Str("x")}
OtherSlots == {Dict(EmptyMap),
               Dict([s |-> Str("2017")]), Dict([s |-> Str("x")]),
               Dict([q |-> Str("2017")]), Dict([q |-> Str("x")]),
               Dict([items |-> None]), Dict([items |-> Str("2017")]),
               Dict([timestamp |-> None])}
SlotMaps == OtherSlots \cup {Put(o, "p", v) : o \in OtherSlots, v \in SlotValues}

\* a Lex event for intent name with the slots given (a slot map or None)
Payload(name, slots) ==
    Dict([currentIntent |-> Dict([name |-> Str(name), slots |-> slots]),
          bot |-> Dict([name |-> Str("bot")]),
          userId |-> Str("u1"),
          inputTranscript |-> Str("hi"),
          invocationSource |-> Str("FulfillmentCodeHook"),
          outputDialogMode |-> Str("Text"),
          messageVersion |-> Str("1.0"),
          sessionAttributes |-> Dict([k |-> Str("1")]),
          requestAttributes |-> None])

Payloads == {Payload(name, slots) : name \in IntentNames, slots \in SlotMaps \cup {None}}

\* the requests of SpecRegistry
RegistryPayloads ==
    {Payload(name, slots) : name \in IntentNames,
                            slots \in {Dict([p |-> Str("2017")]), Dict([p |-> Str("")])}}

\* the requests of SpecSession: for intent A, with the key sessionAttributes
\* absent, null, empty or holding one attribute
PayloadWithout(payload, key) ==
    Dict([k \in (DOMAIN payload.kv) \ {key} |-> payload.kv[k]])

SessionPayloads ==
    {PayloadWithout(Payload("A", None), "sessionAttributes")}
    \cup {Put(Payload("A", None), "sessionAttributes", v) :
            v \in {None, Dict(EmptyMap), Dict([k |-> Str("1")])}}

\* the session attributes a handler writes
SessionKeys == {"k", "n"}
SessionWrites == {Str("1"), Str("2")}

\* the worker threads of the server and the requests they serve: for intent
\* A, with slots for which no converter, one or two converters raise
Threads == {"t1", "t2"}
Idle == [pc |-> "idle", payload |-> None, own |-> None, seen |-> None]
ConcurrentPayloads ==
    {Payload("A", slots) : slots \in {Dict([p |-> Str("2017")]),
                                      Dict([p |-> Str("x")]),
                                      Dict([p |-> Str("x"), q |-> Str("x")])}}

\* the number of times one intent name is registered in SpecRegistry
MaxRegistrations == 2

\* the JSON values nested at most depth deep: a string, a mapping with the key
\* a, a list of at most one element
RECURSIVE JsonValues(_)
JsonValues(depth) ==
    IF depth = 0
    THEN {Str("1")}
    ELSE {Str("1"), Dict(EmptyMap), List(<<>>)}
         \cup {Dict([a |-> v]) : v \in JsonValues(depth - 1)}
         \cup {List(<<v>>) : v \in JsonValues(depth - 1)}

MaxDepth == 5
JsonPayloads == {v \in JsonValues(MaxDepth) : v.t = "dict"}

\* the response objects a handler makes, the messages and the cards it adds
SomeSlots == Dict([p |-> Str("x")])
NewResponses == {close(TRUE), close(FALSE), confirm_intent("A", SomeSlots),
                 delegate(SomeSlots), elicit_intent, elicit_slot("A", "p", SomeSlots)}
Messages == {"hi", "<speak>hi</speak>", "<speak", "<p>hi</p>"}
Titles == {None, Str("t")}
Buttons == {None, List(<<Dict([text |-> Str("yes"), value |-> Str("y")])>>)}
MaxCards == 2

(***************************************************************************)
(* Actions                                                                 *)
(***************************************************************************)

\* RegPut as d.setdefault(key, value): an entry already there is kept
RegPut_SetDefault(registry, key, value) ==
    [k \in (DOMAIN registry) \cup {key} |->
        IF k \in DOMAIN registry THEN registry[k] ELSE value]

\* d[key] = value on a registry dict
RegPut(registry, key, value) ==
    [k \in (DOMAIN registry) \cup {key} |-> IF k = key THEN value ELSE registry[k]]

\* @flex.intent(intent_name, mapping, convert, default) applied to f.  The
\* decorators run while the application is set up, before a request is served.
Intent(intent_name, mapping, convert, default, f) ==
    /\ flex_payload = None
    /\ _intent_view_funcs' = RegPut(_intent_view_funcs, intent_name, f)
    /\ _intent_mappings' = RegPut(_intent_mappings, intent_name, mapping)
    /\ _intent_converts' = RegPut(_intent_converts, intent_name, convert)
    /\ _intent_defaults' = RegPut(_intent_defaults, intent_name, default)
    /\ UNCHANGED <<_default_intent_view_func, request_vars, field_vars, response_vars>>

\* @flex.default_intent applied to f
DefaultIntent(f) ==
    /\ flex_payload = None
    /\ _default_intent_view_func' = f
    /\ UNCHANGED <<_intent_view_funcs, _intent_mappings, _intent_converts,
                   _intent_defaults, request_vars, registrations, field_vars, response_vars>>

\* what _flask_view_func returns or raises, given the outcome d of the dispatch
\* and the result of the handler (None when no handler ran)
ViewResult(d, result, session) ==
    IF d.called /\ d.st = "raise"
    THEN [st |-> "raise", exc |-> d.exc]
    ELSE IF result # None
         THEN IF result.t = "_Response"
              THEN render_response(result.response, session)
              ELSE [st |-> "ok", val |-> result]
         ELSE [st |-> "ok", val |-> [t |-> "tuple", items |-> <<Str(""), IntV("400")>>]]

\* _flask_view_func from the dispatch on: d is the outcome of
\* _map_intent_to_view_func, NotCalled when no intent is registered
Respond(payload, context, d) ==
    /\ flex_payload' = payload
    /\ ctx' = context
    /\ dispatched' = d
    /\ convert_errors' = IF d.called /\ d.st = "ok" THEN d.convert_errors ELSE convert_errors
    /\ view_result' = ViewResult(d, IF d.called /\ d.st = "ok"
                                    THEN Invoke(d.view_func, d.arg_values)
                                    ELSE None,
                                 context.session)
    /\ UNCHANGED <<registry_vars, registrations, field_vars, response_vars, threads>>

\* _flask_view_func once the context is filled from the wrapped payload
Serve(payload, context) ==
    Respond(payload, context,
            IF DOMAIN _intent_view_funcs # {}
            THEN _map_intent_to_view_func(_intent_view_funcs, _default_intent_view_func,
                                          _intent_converts, _intent_defaults,
                                          _intent_mappings, context.current_intent)
            ELSE NotCalled)

\* Flex._flask_view_func serving one request whose body is payload
FlaskViewFunc(payload) == Serve(payload, ContextOf(Field(payload)))

\* the history of the registrations under intent_name after one more
Registered(intent_name, mapping, convert, default, f) ==
    [registrations EXCEPT ![intent_name] =
        [count |-> @.count + 1, f |-> f, mapping |-> mapping,
         convert |-> convert, default |-> default]]

\* _Field(request_json)
Wrap ==
    /\ field = None
    /\ field' = Field(request_json)
    /\ UNCHANGED <<registry_vars, request_vars, registrations, request_json, response_vars>>

\* a handler makes a response object
Construct(response) ==
    /\ _response = None
    /\ _response' = response
    /\ UNCHANGED <<registry_vars, request_vars, registrations, field_vars, card_calls, cards, rendered>>

\* _Response.message(msg)
Message(msg) ==
    /\ _response # None
    /\ rendered = None
    /\ _response' = message(_response, msg)
    /\ UNCHANGED <<registry_vars, request_vars, registrations, field_vars, card_calls, cards, rendered>>

\* _Response.response_card(title, subtitle, image_url, attachment_url, buttons)
ResponseCard(title, subtitle, image_url, attachment_url, buttons) ==
    /\ _response # None
    /\ rendered = None
    /\ card_calls < MaxCards
    /\ _response' = response_card(_response, title, subtitle, image_url, attachment_url, buttons)
    /\ card_calls' = card_calls + 1
    /\ cards' = Append(cards, Attachment(title, subtitle, image_url, attachment_url, buttons))
    /\ UNCHANGED <<registry_vars, request_vars, registrations, field_vars, rendered>>

\* _flask_view_func up to the call of the handler: the context is filled from
\* the wrapped payload and the handler is resolved and bound; the handler then
\* runs step by step
EnterHandler(payload, context, d) ==
    /\ flex_payload = None
    /\ DOMAIN _intent_view_funcs # {}
    /\ d.st = "ok"
    /\ flex_payload' = payload
    /\ ctx' = context
    /\ dispatched' = d
    /\ convert_errors' = d.convert_errors
    /\ UNCHANGED <<registry_vars, view_result, registrations, field_vars, response_vars,
                   threads>>

BeginRequest(payload) ==
    EnterHandler(payload, ContextOf(Field(payload)),
                 _map_intent_to_view_func(_intent_view_funcs, _default_intent_view_func,
                                          _intent_converts, _intent_defaults,
                                          _intent_mappings,
                                          ContextOf(Field(payload)).current_intent))

\* session[key] = value in a handler: the write goes through the proxy to the
\* session object of the request (a write on a None session raises in the
\* handler and the request ends there)
SessionSet(key, value) ==
    /\ flex_payload # None
    /\ rendered = None
    /\ ctx.session # None
    /\ ctx' = [ctx EXCEPT !.session = Put(@, key, value)]
    /\ UNCHANGED <<registry_vars, convert_errors, flex_payload, dispatched, view_result,
                   registrations, field_vars, response_vars, threads>>

\* thread t in _flask_view_func up to the call of the handler: its own context
\* is filled, the handler is resolved and bound, and _map_params_to_view_args
\* has stored the conversion errors of this dispatch in self.convert_errors
Bound(t, payload, d) ==
    /\ threads[t].pc = "idle"
    /\ DOMAIN _intent_view_funcs # {}
    /\ d.st = "ok"
    /\ convert_errors' = d.convert_errors
    /\ threads' = [threads EXCEPT ![t] = [pc |-> "handler", payload |-> payload,
                                          own |-> d.convert_errors, seen |-> None]]
    /\ UNCHANGED <<registry_vars, ctx, flex_payload, dispatched, view_result,
                   registrations, field_vars, response_vars>>

ThreadDispatch(t, payload) ==
    Bound(t, payload,
          _map_intent_to_view_func(_intent_view_funcs, _default_intent_view_func,
                                   _intent_converts, _intent_defaults, _intent_mappings,
                                   ContextOf(Field(payload)).current_intent))

\* the handler of thread t, or _flask_view_func after it, reads
\* flex.convert_errors
ThreadReadErrors(t) ==
    /\ threads[t].pc = "handler"
    /\ threads' = [threads EXCEPT ![t].pc = "done", ![t].seen = convert_errors]
    /\ UNCHANGED <<registry_vars, convert_errors, ctx, flex_payload, dispatched, view_result,
                   registrations, field_vars, response_vars>>

\* the envelope render_response serialises: self._response with the session
\* attributes, or the exception dict(session) raised
Rendered(response, attrs) ==
    IF attrs.st = "raise" THEN response ELSE Put(response, "sessionAttributes", attrs.val)

\* _Response.render_response(), when the handler has returned the object
RenderResponse ==
    /\ _response # None
    /\ rendered = None
    /\ rendered' = render_response(_response, ctx.session)
    /\ _response' = Rendered(_response, DictOfSession(ctx.session))
    /\ UNCHANGED <<registry_vars, request_vars, registrations, field_vars, card_calls, cards>>

(***************************************************************************)
(* Specifications                                                          *)
(***************************************************************************)

\* Flex.__init__, and no request served yet
InitFlex ==
    /\ _intent_view_funcs = [k \in {} |-> None]
    /\ _intent_mappings = [k \in {} |-> None]
    /\ _intent_converts = [k \in {} |-> None]
    /\ _intent_defaults = [k \in {} |-> None]
    /\ _default_intent_view_func = None
    /\ convert_errors = [t |-> "unset", v |-> ""]
    /\ ctx = NoContext
    /\ flex_payload = None
    /\ dispatched = NotCalled
    /\ view_result = None
    /\ registrations = [n \in IntentNames |-> [count |-> 0]]
    /\ threads = [t \in Threads |-> Idle]

NoField == request_json = Dict(EmptyMap) /\ field = None
NoResponse == _response = None /\ card_calls = 0 /\ cards = <<>> /\ rendered = None

\* an application that registers a handler for the intents of AppIntents and
\* maybe a default handler, then serves requests
Init == InitFlex /\ NoField /\ NoResponse

Next ==
    \/ \E intent_name \in AppIntents, mapping \in Mappings, convert \in Converts,
          default \in Defaults, f \in NamedHandlers :
         Intent(intent_name, mapping, convert, default, f) /\ UNCHANGED registrations
    \/ \E f \in DefaultHandlers : DefaultIntent(f)
    \/ \E payload \in Payloads : FlaskViewFunc(payload)

Spec == Init /\ [][Next]_vars

\* an application that registers handlers for all the intents, each up to
\* MaxRegistrations times, then serves requests
NextRegistry ==
    \/ \E intent_name \in IntentNames, mapping \in Mappings, convert \in Converts,
          default \in Defaults, f \in NamedHandlers :
         /\ registrations[intent_name].count < MaxRegistrations
         /\ Intent(intent_name, mapping, convert, default, f)
         /\ registrations' = Registered(intent_name, mapping, convert, default, f)
    \/ \E payload \in RegistryPayloads : FlaskViewFunc(payload)

SpecRegistry == Init /\ [][NextRegistry]_vars

\* _Field applied to a JSON payload
InitField == InitFlex /\ NoResponse /\ request_json \in JsonPayloads /\ field = None

NextField == Wrap

SpecField == InitField /\ [][NextField]_vars

\* a response object made, extended and rendered
NextResponse ==
    \/ \E response \in NewResponses : Construct(response)
    \/ \E msg \in Messages : Message(msg)
    \/ \E title \in Titles, buttons \in Buttons : ResponseCard(title, None, None, None, buttons)
    \/ RenderResponse

SpecResponse == Init /\ [][NextResponse]_vars

\* an application with a handler for intent A; one request is received, and
\* its handler makes a response, writes session attributes before and after,
\* and returns the response, which is rendered
NextSession ==
    \/ \E intent_name \in AppIntents :
         Intent(intent_name, Dict(EmptyMap), Dict(EmptyMap), Dict(EmptyMap), Function("h0"))
         /\ UNCHANGED registrations
    \/ \E payload \in SessionPayloads : BeginRequest(payload)
    \/ \E response \in NewResponses : flex_payload # None /\ Construct(response)
    \/ \E key \in SessionKeys, value \in SessionWrites : SessionSet(key, value)
    \/ flex_payload # None /\ RenderResponse

SpecSession == Init /\ [][NextSession]_vars

\* an application with a handler for intent A, served by the threads of
\* Threads: each thread serves one request, and the threads interleave between
\* the dispatch and the handler
NextConcurrent ==
    \/ \E intent_name \in AppIntents, convert \in Converts, f \in NamedHandlers :
         /\ \A t \in Threads : threads[t].pc = "idle"
         /\ Intent(intent_name, Dict(EmptyMap), convert, Dict(EmptyMap), f)
         /\ UNCHANGED registrations
    \/ \E t \in Threads, payload \in ConcurrentPayloads : ThreadDispatch(t, payload)
    \/ \E t \in Threads : ThreadReadErrors(t)

SpecConcurrent == Init /\ [][NextConcurrent]_vars

(***************************************************************************)
(* The request served last, as the properties below read it                *)
(***************************************************************************)

Served == flex_payload # None
ReqName == flex_payload.kv["currentIntent"].kv["name"].v
IsRegistered == ReqName \in DOMAIN _intent_view_funcs
\* the flat slot map the dispatcher built for the request
ReqData == RequestData(ctx.current_intent)
\* the declared parameters of the handler chosen, and its arguments
Params == getargspec[dispatched.view_func.v]
ParamsOfRegistered == getargspec[_intent_view_funcs[ReqName].v]
IsEmptySlot(v) == v = None \/ v = Str("")
\* the slot key parameter a of the registered handler is read from
SlotKeyOf(a) ==
    IF a \in DOMAIN _intent_mappings[ReqName].kv
    THEN _intent_mappings[ReqName].kv[a].v
    ELSE a
\* the value the request holds in that slot, None when the slot is absent
SlotValueOf(a) == Get(ReqData.val, SlotKeyOf(a))
\* a dispatch for a registered intent whose slot map was built
DispatchedRegistered == Served /\ dispatched.called /\ IsRegistered /\ ReqData.st = "ok"

(***************************************************************************)
(* Properties                                                              *)
(***************************************************************************)

\* C1: when the intent name is not registered and a default handler is, the
\* dispatch returns an invocation of the default handler with one argument per
\* declared parameter, each the value of the slot of the same name.
C1_DefaultHandlerBound ==
    (Served /\ dispatched.called /\ ~IsRegistered /\ _default_intent_view_func # None)
    => /\ dispatched.st = "ok"
       /\ dispatched.view_func = _default_intent_view_func
       /\ Len(dispatched.arg_values) = Len(Params)
       /\ \A i \in 1..Len(Params) : dispatched.arg_values[i] = Get(ReqData.val, Params[i])

\* C2: a dispatch for an unregistered intent name with no default handler
\* raises NotImplementedError and no handler runs; a dispatch for a registered
\* name chooses the handler registered under it, default handler or not.
C2_Resolution ==
    (Served /\ dispatched.called)
    => /\ (~IsRegistered /\ _default_intent_view_func = None)
          => /\ dispatched.st = "raise"
             /\ dispatched.exc = Error("NotImplementedError")
             /\ dispatched.view_func = None
             /\ view_result = [st |-> "raise", exc |-> Error("NotImplementedError")]
       /\ IsRegistered => dispatched.view_func = _intent_view_funcs[ReqName]

C2_Witness ==
    /\ Served /\ dispatched.called /\ ~IsRegistered
    /\ _default_intent_view_func = None
    /\ dispatched.st = "raise"
    /\ view_result.exc = Error("NotImplementedError")

\* the value _flask_view_func returns is the result of handler f
IsResultOf(val, f) ==
    IF f = Function("h0")
    THEN val.t = "json" /\ val.doc.kv["dialogAction"].kv["type"] = Str("Close")
    ELSE val.t = "result" /\ val.handler = f.v

\* C3: once a default handler is registered, every request whose intent name
\* is not registered is answered with the result of the default handler, also
\* when no intent is registered at all.
C3_DefaultAtBoundary ==
    (Served /\ ~IsRegistered /\ _default_intent_view_func # None)
    => /\ view_result.st = "ok"
       /\ IsResultOf(view_result.val, _default_intent_view_func)

CallsOf(a) == Cardinality({j \in 1..Len(dispatched.calls) : dispatched.calls[j] = a})

C7_ArgsInDeclaredOrder ==
    (Served /\ dispatched.called /\ dispatched.st = "ok")
    => /\ Len(dispatched.arg_values) = Len(Params)
       /\ \A i \in 1..Len(Params) :
            dispatched.arg_values[i] =
              ResolveArg(Params[i], RegGet(_intent_converts, Str(ReqName)),
                         RegGet(_intent_defaults, Str(ReqName)),
                         RegGet(_intent_mappings, Str(ReqName)),
                         ReqData.val, ctx.current_intent).val

C7_Witness ==
    /\ DispatchedRegistered /\ dispatched.st = "ok"
    /\ dispatched.view_func = Function("hQP")
    /\ _intent_defaults[ReqName] = Dict(EmptyMap)
    /\ dispatched.arg_values = <<None, Str("2017")>>

\* the outcome of a dispatch that uses nothing but the latest registration
\* under the intent name of the request
DispatchOfLatest ==
    LET r == registrations[ReqName]
    IN  BindViewFunc(r.f, ReqName :> r.convert, ReqName :> r.default, ReqName :> r.mapping,
                     ctx.current_intent)

\* C8: the registry holds, under each intent name, the handler, mapping,
\* converters and defaults of the latest registration under that name and
\* nothing under a name never registered, and a dispatch for a name uses these.
C8_LastRegistrationWins ==
    /\ \A n \in IntentNames :
         IF registrations[n].count = 0
         THEN /\ n \notin DOMAIN _intent_view_funcs
              /\ n \notin DOMAIN _intent_mappings
              /\ n \notin DOMAIN _intent_converts
              /\ n \notin DOMAIN _intent_defaults
         ELSE /\ n \in DOMAIN _intent_view_funcs /\ _intent_view_funcs[n] = registrations[n].f
              /\ n \in DOMAIN _intent_mappings /\ _intent_mappings[n] = registrations[n].mapping
              /\ n \in DOMAIN _intent_converts /\ _intent_converts[n] = registrations[n].convert
              /\ n \in DOMAIN _intent_defaults /\ _intent_defaults[n] = registrations[n].default
    /\ (Served /\ dispatched.called /\ registrations[ReqName].count > 0)
       => dispatched = DispatchOfLatest

C8_Witness ==
    /\ Served /\ dispatched.called /\ dispatched.st = "ok"
    /\ registrations[ReqName].count = 2
    /\ \A n \in IntentNames : registrations[n].count > 0
    /\ registrations[ReqName].convert = Dict(EmptyMap)
    /\ dispatched.arg_values = <<Str("2017"), None>>

\* no plain dict is reachable from value through mappings and lists
RECURSIVE AllWrapped(_)
AllWrapped(value) ==
    CASE value.t = "dict" -> FALSE
      [] value.t = "_Field" -> \A k \in DOMAIN value.kv : AllWrapped(value.kv[k])
      [] value.t = "list" -> \A i \in 1..Len(value.items) : AllWrapped(value.items[i])
      [] OTHER -> TRUE

\* C9: every mapping reachable from _Field(payload), through nested mappings
\* and through lists, is a _Field.
C9_WrappingTotal == field # None => AllWrapped(field)

\* C10: a rendered response on which response_card was called has its
\* responseCard inside dialogAction, and the top level of the envelope holds
\* dialogAction and sessionAttributes only.
C10_CardInsideDialogAction ==
    (rendered # None /\ rendered.st = "ok" /\ card_calls >= 1)
    => /\ "responseCard" \in DOMAIN rendered.val.doc.kv["dialogAction"].kv
       /\ DOMAIN rendered.val.doc.kv = {"dialogAction", "sessionAttributes"}

\* the keys under which the mapping value holds a genericAttachments sequence,
\* directly or in a mapping one level below
HoldersOfAttachments(value) ==
    {k \in DOMAIN value.kv :
        /\ IsDict(value.kv[k])
        /\ \/ "genericAttachments" \in DOMAIN value.kv[k].kv
           \/ \E j \in DOMAIN value.kv[k].kv :
                 /\ IsDict(value.kv[k].kv[j])
                 /\ "genericAttachments" \in DOMAIN value.kv[k].kv[j].kv}

\* C11: after k >= 1 response_card calls on a response of any variant, with
\* message calls in between, the response holds one genericAttachments
\* sequence, made of the k attachments of the calls in call order, beside the
\* version and the contentType the first call set; before the first call it
\* holds no card.
C11_CardsAccumulate ==
    _response # None
    => IF card_calls = 0
       THEN HoldersOfAttachments(_response) = {}
       ELSE /\ HoldersOfAttachments(_response) = {"responseCard"}
            /\ DOMAIN _response.kv["responseCard"].kv
                 = {"version", "contentType", "genericAttachments"}
            /\ _response.kv["responseCard"].kv["version"] = IntV("1")
            /\ _response.kv["responseCard"].kv["contentType"]
                 = Str("application/vnd.amazonaws.card.generic")
            /\ _response.kv["responseCard"].kv["genericAttachments"] = List(cards)
            /\ Len(cards) = card_calls

\* two calls with different attachments on a response that has a message
C11_Witness ==
    /\ _response # None
    /\ card_calls = 2
    /\ cards[1] # cards[2]
    /\ "message" \in DOMAIN _response.kv["dialogAction"].kv
    /\ _response.kv["responseCard"].kv["genericAttachments"].items = cards

\* C12: for every request, the response its handler returns is rendered with
\* success and carries under sessionAttributes a mapping equal to the session
\* of the request as it is when render_response runs, with what the handler
\* wrote after it made the response; this also for a request whose payload
\* has no sessionAttributes or a null one.
C12_SessionAtRender ==
    (flex_payload # None /\ rendered # None)
    => /\ rendered.st = "ok"
       /\ "sessionAttributes" \in DOMAIN rendered.val.doc.kv
       /\ rendered.val.doc.kv["sessionAttributes"].t = "dict"
       /\ rendered.val.doc.kv["sessionAttributes"].kv = ctx.session.kv

\* C13: when requests are dispatched concurrently on one Flex instance, the
\* convert_errors a request observes after its dispatch are those of its own
\* dispatch: the parameters whose converter raised for its own slots, never
\* the errors of another request.
C13_ConvertErrorsIsolated ==
    \A t \in Threads :
        threads[t].pc = "done" => threads[t].seen = threads[t].own

====
